---- MODULE Spec2Model ----
(***************************************************************************)
(* Model of langchain_community/document_loaders/youtube_community.py:     *)
(* the URL validator, the embedded-JSON locator, the field extractors, the *)
(* record builder, the document constructor and the loader.                *)
(*                                                                         *)
(* Python values are tagged records [t |-> <type>, v |-> <payload>].  A    *)
(* Python str is a sequence of symbols; a symbol is one character, or one  *)
(* reserved word (a key name, a host name) standing for its characters.    *)
(* The outcome of a call is [exc |-> <exception or "none">, val |-> value].*)
(***************************************************************************)
EXTENDS Integers, Sequences, FiniteSets, TLC

VARIABLES pc, loader, call, log

vars == <<pc, loader, call, log>>

-----------------------------------------------------------------------------
(* Python values *)

None == [t |-> "NoneType", v |-> 0]
PyStr(s) == [t |-> "str", v |-> s]
PyInt(n) == [t |-> "int", v |-> n]
\* a float is held in units of 1/10000
PyFloat(n) == [t |-> "float", v |-> n]
PyList(a) == [t |-> "list", v |-> a]
PyDict(m) == [t |-> "dict", v |-> m]
EmptyMap == [k \in {} |-> None]
EmptyDict == PyDict(EmptyMap)

Ok(x) == [exc |-> "none", val |-> x]
Raise(e) == [exc |-> e, val |-> None]
IsOk(r) == r.exc = "none"

\* F(x), with x evaluated once
Once(x, F(_)) == CHOOSE y \in {F(e) : e \in {x}} : TRUE

\* bool(x)
Truthy(x) ==
    CASE x.t = "NoneType" -> FALSE
      [] x.t \in {"int", "float"} -> x.v # 0
      [] x.t = "str" -> Len(x.v) > 0
      [] x.t = "list" -> Len(x.v) > 0
      [] x.t = "dict" -> DOMAIN x.v # {}
      [] OTHER -> TRUE

\* x[key] for a str key
GetItem(x, key) ==
    CASE x.t = "dict" -> IF key \in DOMAIN x.v THEN Ok(x.v[key]) ELSE Raise("KeyError")
      [] OTHER -> Raise("TypeError")

\* x[0] and x[-1]
GetIndex(x, i) ==
    CASE x.t = "list" ->
            IF Len(x.v) = 0 THEN Raise("IndexError")
            ELSE Ok(IF i = 0 THEN x.v[1] ELSE x.v[Len(x.v)])
      [] x.t = "str" ->
            IF Len(x.v) = 0 THEN Raise("IndexError")
            ELSE Ok(PyStr(<<IF i = 0 THEN x.v[1] ELSE x.v[Len(x.v)]>>))
      [] x.t = "dict" -> Raise("KeyError")
      [] OTHER -> Raise("TypeError")

\* x.get(key, default)
Get(x, key, default) ==
    CASE x.t = "dict" -> Ok(IF key \in DOMAIN x.v THEN x.v[key] ELSE default)
      [] OTHER -> Raise("AttributeError")

\* the items a for loop over x visits (no input iterates over a dict)
Iter(x) ==
    CASE x.t = "list" -> Ok(x.v)
      [] x.t = "str" -> Ok([i \in 1..Len(x.v) |-> PyStr(<<x.v[i]>>)])
      [] OTHER -> Raise("TypeError")

\* chained forms: the first exception raised ends the chain
Sub(r, key) == IF IsOk(r) THEN GetItem(r.val, key) ELSE r
Idx(r, i) == IF IsOk(r) THEN GetIndex(r.val, i) ELSE r
DotGet(r, key, default) == IF IsOk(r) THEN Get(r.val, key, default) ELSE r

-----------------------------------------------------------------------------
(* str operations *)

Digits == <<"0", "1", "2", "3", "4", "5", "6", "7", "8", "9">>

RECURSIVE IntToStr(_)
\* str(n) for n >= 0
IntToStr(n) ==
    IF n < 10 THEN <<Digits[n + 1]>>
    ELSE IntToStr(n \div 10) \o <<Digits[(n % 10) + 1]>>

\* str(x) inside an f-string, for the types the inputs carry
Format(x) ==
    CASE x.t = "str" -> x.v
      [] x.t = "int" -> IF x.v < 0 THEN <<"-">> \o IntToStr(-x.v) ELSE IntToStr(x.v)
      [] x.t = "NoneType" -> <<"None">>

RECURSIVE rstrip(_, _)
\* s.rstrip(chars)
rstrip(s, chars) ==
    IF Len(s) > 0 /\ s[Len(s)] \in chars THEN rstrip(SubSeq(s, 1, Len(s) - 1), chars)
    ELSE s

RECURSIVE JoinFrom(_, _)
JoinFrom(strings, i) ==
    IF i > Len(strings) THEN << >> ELSE strings[i].v \o JoinFrom(strings, i + 1)

\* "".join(strings)
Join(strings) ==
    IF \E i \in 1..Len(strings) : strings[i].t # "str" THEN Raise("TypeError")
    ELSE Ok(PyStr(JoinFrom(strings, 1)))

-----------------------------------------------------------------------------
(* _get_video_link *)

WatchPrefix == <<"https://www.youtube.com/watch?v=">>

_get_video_link(post) ==
    LET video_id == Sub(Sub(Sub(Ok(post), "backstageAttachment"), "videoRenderer"), "videoId")
    IN  IF IsOk(video_id) THEN Ok(PyStr(WatchPrefix \o Format(video_id.val)))
        ELSE IF video_id.exc = "KeyError" THEN Ok(None)
        ELSE video_id

-----------------------------------------------------------------------------
(* _get_image_links *)

\* image["backstageImageRenderer"]["image"]["thumbnails"][-1]["url"]
LastThumbnailUrl(r) ==
    Sub(Idx(Sub(Sub(Sub(r, "backstageImageRenderer"), "image"), "thumbnails"), -1), "url")

RECURSIVE ImageLoop(_, _, _)
\* the for loop over images: the first exception ends it
ImageLoop(images, i, links) ==
    IF i > Len(images) THEN Ok(PyList(links))
    ELSE LET url == LastThumbnailUrl(Ok(images[i]))
         IN  IF IsOk(url) THEN ImageLoop(images, i + 1, Append(links, url.val))
             ELSE url

_get_image_links(post) ==
    LET single_image == LastThumbnailUrl(Sub(Ok(post), "backstageAttachment"))
        images == Sub(Sub(Sub(Ok(post), "backstageAttachment"), "postMultiImageRenderer"), "images")
        items == IF IsOk(images) THEN Iter(images.val) ELSE images
        links == IF IsOk(items) THEN ImageLoop(items.val, 1, << >>) ELSE items
    IN  IF IsOk(single_image) THEN Ok(PyList(<<single_image.val>>))
        ELSE IF single_image.exc # "KeyError" THEN single_image
        ELSE IF IsOk(links) THEN (IF Len(links.val.v) > 0 THEN links ELSE Ok(None))
        ELSE IF links.exc = "KeyError" THEN Ok(None)
        ELSE links

-----------------------------------------------------------------------------
(* _handle_text_content *)

\* the start of the first match of (?<=q=)(.+): the first position preceded
\* by "q=" that holds a character other than a newline; 0 when none
FindAllStart(s) ==
    LET starts == {i \in 3..Len(s) : s[i - 2] = "q" /\ s[i - 1] = "=" /\ s[i] # "\n"}
    IN  IF starts = {} THEN 0 ELSE CHOOSE i \in starts : \A j \in starts : i <= j

\* the end of the greedy .+ that starts at i: the end of the line
FindAllEnd(s, i) ==
    LET stops == {j \in i..Len(s) : s[j] = "\n"}
    IN  IF stops = {} THEN Len(s) ELSE (CHOOSE j \in stops : \A k \in stops : j <= k) - 1

\* the hexadecimal digits among the symbols of the model
HexDigits == {"2", "3", "A"}

\* bytes.fromhex(h1 + h2).decode("utf-8", "replace")
HexToChar(h1, h2) ==
    CASE h1 = "2" /\ h2 = "2" -> "\""
      [] h1 = "2" /\ h2 = "3" -> "#"
      [] h1 = "2" /\ h2 = "A" -> "*"
      [] h1 = "3" /\ h2 = "2" -> "2"
      [] h1 = "3" /\ h2 = "3" -> "3"
      [] h1 = "3" /\ h2 = "A" -> ":"
      [] OTHER -> "U+FFFD"

RECURSIVE UnquoteFrom(_, _)
UnquoteFrom(s, i) ==
    IF i > Len(s) THEN << >>
    ELSE IF s[i] = "%" /\ i + 2 <= Len(s) /\ s[i + 1] \in HexDigits /\ s[i + 2] \in HexDigits
         THEN <<HexToChar(s[i + 1], s[i + 2])>> \o UnquoteFrom(s, i + 3)
         ELSE <<s[i]>> \o UnquoteFrom(s, i + 1)

\* urllib.parse.unquote(s)
unquote(s) == UnquoteFrom(s, 1)

_handle_text_content(content) ==
    LET link_redirect == Sub(Sub(Sub(Ok(content), "navigationEndpoint"), "urlEndpoint"), "url")
    IN  IF IsOk(link_redirect) THEN
            IF link_redirect.val.t # "str" THEN Raise("TypeError")
            ELSE LET s == link_redirect.val.v
                     i == FindAllStart(s)
                 IN  IF i > 0 THEN Ok(PyStr(unquote(SubSeq(s, i, FindAllEnd(s, i)))))
                     ELSE link_redirect
        ELSE IF link_redirect.exc \in {"KeyError", "IndexError"}
             THEN Get(content, "text", PyStr(<< >>))
        ELSE link_redirect

-----------------------------------------------------------------------------
(* _get_text_content *)

RECURSIVE HandleAll(_, _, _)
\* [_handle_text_content(content) for content in text_runs]
HandleAll(text_runs, i, strings) ==
    IF i > Len(text_runs) THEN Ok(strings)
    ELSE LET r == _handle_text_content(text_runs[i])
         IN  IF IsOk(r) THEN HandleAll(text_runs, i + 1, Append(strings, r.val)) ELSE r

\* the body of either try block, for the run list found under key
JoinRuns(post, key) ==
    LET text_runs == Sub(Sub(Ok(post), key), "runs")
        items == IF IsOk(text_runs) THEN Iter(text_runs.val) ELSE text_runs
        strings == IF IsOk(items) THEN HandleAll(items.val, 1, << >>) ELSE items
    IN  IF IsOk(strings) THEN Join(strings.val) ELSE strings

_get_text_content(post) ==
    LET main == JoinRuns(post, "contentText")
        shared == JoinRuns(post, "content")
    IN  IF main.exc # "KeyError" THEN main
        ELSE IF shared.exc = "KeyError" THEN Ok(None)
        ELSE shared

-----------------------------------------------------------------------------
(* _get_poll_content *)

\* round(vote_ratio * 100, 1), formatted by the f-string
Percentage(vote_ratio) ==
    IF vote_ratio.t = "int" THEN IntToStr(vote_ratio.v * 100)
    ELSE LET tenths == (vote_ratio.v + 5) \div 10
         IN  IntToStr(tenths \div 10) \o <<".">> \o IntToStr(tenths % 10)

PollPrefix == <<"P", "o", "l", "l", ":", " ">>

RECURSIVE PollLoop(_, _, _)
\* the for loop over choices
PollLoop(choices, i, poll_text) ==
    IF i > Len(choices) THEN Ok(PyStr(poll_text))
    ELSE LET choice == choices[i]
             text == DotGet(Idx(DotGet(Get(choice, "text", EmptyDict),
                                       "runs", PyList(<<EmptyDict>>)), 0),
                            "text", PyStr(<< >>))
             vote_ratio == Get(choice, "voteRatio", PyInt(0))
         IN  IF ~IsOk(text) THEN text
             ELSE IF ~IsOk(vote_ratio) THEN vote_ratio
             ELSE IF vote_ratio.val.t \notin {"int", "float"} THEN Raise("TypeError")
             ELSE IF vote_ratio.val.v > 0
                  THEN PollLoop(choices, i + 1,
                                poll_text \o Format(text.val) \o <<":", " ">>
                                    \o Percentage(vote_ratio.val) \o <<"%", ",", " ">>)
                  ELSE PollLoop(choices, i + 1, poll_text \o Format(text.val) \o <<",", " ">>)

_get_poll_content(post) ==
    LET poll == Sub(Sub(Ok(post), "backstageAttachment"), "pollRenderer")
        choices == DotGet(poll, "choices", PyList(<< >>))
        items == IF IsOk(choices) THEN Iter(choices.val) ELSE choices
        poll_text == IF IsOk(items) THEN PollLoop(items.val, 1, PollPrefix) ELSE items
        result == IF ~IsOk(choices) THEN choices
                  ELSE IF ~Truthy(choices.val) THEN Ok(None)
                  ELSE IF IsOk(poll_text) THEN Ok(PyStr(rstrip(poll_text.val.v, {",", " "})))
                  ELSE poll_text
    IN  IF result.exc = "KeyError" THEN Ok(None) ELSE result

-----------------------------------------------------------------------------
(* json.JSONDecoder.raw_decode, over the symbols of a blob.  A decoding step *)
(* returns [exc, val, end]: end is the position after the decoded text.     *)

WHITESPACE == {" ", "\n"}

Decoded(x, e) == [exc |-> "none", val |-> x, end |-> e]
JSONDecodeError == [exc |-> "JSONDecodeError", val |-> None, end |-> 0]

\* the first position at or after i that holds no whitespace
SkipWs(s, i) ==
    LET rest == {j \in i..Len(s) : s[j] \notin WHITESPACE}
    IN  IF rest = {} THEN Len(s) + 1 ELSE CHOOSE j \in rest : \A k \in rest : j <= k

\* s[i:i+1]
CharAt(s, i) == IF i >= 1 /\ i <= Len(s) THEN s[i] ELSE ""

RECURSIVE SymbolsToKey(_, _)
\* the key a string's symbols spell
SymbolsToKey(syms, i) == IF i > Len(syms) THEN "" ELSE syms[i] \o SymbolsToKey(syms, i + 1)

\* scanstring(s, i): i is the position after the opening quote
scanstring(s, i) ==
    LET quotes == {j \in i..Len(s) : s[j] = "\""}
        close == CHOOSE j \in quotes : \A k \in quotes : j <= k
    IN  IF quotes = {} THEN JSONDecodeError
        ELSE IF \E j \in i..(close - 1) : s[j] = "\n" THEN JSONDecodeError
        ELSE Decoded(PyStr(SubSeq(s, i, close - 1)), close + 1)

DigitValue(ch) == CHOOSE d \in 0..9 : Digits[d + 1] = ch
IsDigit(ch) == \E d \in 1..10 : Digits[d] = ch

\* the end of the run of digits that starts at i (i - 1 when there is none)
DigitsEnd(s, i) ==
    LET stops == {j \in i..Len(s) : ~IsDigit(s[j])}
    IN  IF stops = {} THEN Len(s) ELSE (CHOOSE j \in stops : \A k \in stops : j <= k) - 1

RECURSIVE DigitsValue(_, _, _)
\* the number the digits s[i..j] spell
DigitsValue(s, i, j) ==
    IF j < i THEN 0 ELSE DigitsValue(s, i, j - 1) * 10 + DigitValue(s[j])

\* the value of at most four fraction digits s[i..j], in units of 1/10000
FractionValue(s, i, j) ==
    LET d(k) == IF i + k <= j THEN DigitValue(s[i + k]) ELSE 0
    IN  d(0) * 1000 + d(1) * 100 + d(2) * 10 + d(3)

\* NUMBER_RE.match(s, i): (0|[1-9]\d*)(\.\d+)?, for numbers with no sign and no exponent
ScanNumber(s, i) ==
    LET intEnd == IF s[i] = "0" THEN i ELSE DigitsEnd(s, i)
        fracEnd == IF CharAt(s, intEnd + 1) = "." THEN DigitsEnd(s, intEnd + 2) ELSE intEnd
    IN  IF fracEnd > intEnd + 1
        THEN Decoded(PyFloat(DigitsValue(s, i, intEnd) * 10000
                                 + FractionValue(s, intEnd + 2, fracEnd)), fracEnd + 1)
        ELSE Decoded(PyInt(DigitsValue(s, i, intEnd)), intEnd + 1)

RECURSIVE scan_once(_, _), ObjectLoop(_, _, _), ArrayLoop(_, _, _)

\* JSONObject(s, i): i is the position after "{"
JSONObject(s, i) ==
    LET j == SkipWs(s, i)
    IN  IF CharAt(s, j) = "}" THEN Decoded(EmptyDict, j + 1)
        ELSE IF CharAt(s, j) = "\"" THEN ObjectLoop(s, j + 1, EmptyMap)
        ELSE JSONDecodeError

\* JSONArray(s, i): i is the position after "["
JSONArray(s, i) ==
    LET j == SkipWs(s, i)
    IN  IF CharAt(s, j) = "]" THEN Decoded(PyList(<< >>), j + 1)
        ELSE ArrayLoop(s, j, << >>)

\* one "key": value member, then "}" or "," and the next member
ObjectLoop(s, i, pairs) ==
    Once(scanstring(s, i), LAMBDA key :
        IF ~IsOk(key) THEN JSONDecodeError
        ELSE Once(SkipWs(s, key.end), LAMBDA colon :
            IF CharAt(s, colon) # ":" THEN JSONDecodeError
            ELSE Once(scan_once(s, SkipWs(s, colon + 1)), LAMBDA value :
                IF ~IsOk(value) THEN JSONDecodeError
                ELSE Once(SkipWs(s, value.end), LAMBDA next :
                    LET more == SkipWs(s, next + 1)
                        found == (SymbolsToKey(key.val.v, 1) :> value.val) @@ pairs
                    IN  IF CharAt(s, next) = "}" THEN Decoded(PyDict(found), next + 1)
                        ELSE IF CharAt(s, next) # "," THEN JSONDecodeError
                        ELSE IF CharAt(s, more) # "\"" THEN JSONDecodeError
                        ELSE ObjectLoop(s, more + 1, found)))))

\* one element, then "]" or "," and the next element
ArrayLoop(s, i, values) ==
    Once(scan_once(s, i), LAMBDA value :
        IF ~IsOk(value) THEN JSONDecodeError
        ELSE Once(SkipWs(s, value.end), LAMBDA next :
            IF CharAt(s, next) = "]" THEN Decoded(PyList(Append(values, value.val)), next + 1)
            ELSE IF CharAt(s, next) # "," THEN JSONDecodeError
            ELSE ArrayLoop(s, SkipWs(s, next + 1), Append(values, value.val))))

scan_once(s, i) ==
    LET nextchar == CharAt(s, i)
    IN  CASE nextchar = "\"" -> scanstring(s, i + 1)
          [] nextchar = "{" -> JSONObject(s, i + 1)
          [] nextchar = "[" -> JSONArray(s, i + 1)
          [] nextchar = "null" -> Decoded(None, i + 1)
          [] IsDigit(nextchar) -> ScanNumber(s, i)
          [] OTHER -> JSONDecodeError

\* JSONDecoder().raw_decode(s): the value that starts at the first symbol
raw_decode(s) == scan_once(s, 1)

-----------------------------------------------------------------------------
(* _extract_json_from_html *)

\* raw.find(sub, start), positions counted from 1; 0 when sub does not occur
Find(raw, sub, start) ==
    LET hits == {i \in start..(Len(raw) - Len(sub) + 1) : SubSeq(raw, i, i + Len(sub) - 1) = sub}
    IN  IF hits = {} THEN 0 ELSE CHOOSE i \in hits : \A j \in hits : i <= j

\* the locator with a decoder that takes the whole rest of the blob as the
\* document: text after the value is an error
_extract_json_from_html_whole_rest(raw, key) ==
    LET encoded_key == <<"\"">> \o key \o <<"\"", ":">>
    IN  Once(Find(raw, encoded_key, 1), LAMBDA key_pos :
            IF key_pos = 0 THEN Raise("ValueError: Key not found")
            ELSE Once(Find(raw, <<"{">>, key_pos + Len(encoded_key)), LAMBDA brace_pos :
                IF brace_pos = 0 THEN Raise("ValueError: Opening brace not found")
                ELSE Once(raw_decode(SubSeq(raw, brace_pos, Len(raw))), LAMBDA obj :
                    IF ~IsOk(obj) THEN Raise(obj.exc)
                    ELSE IF SkipWs(raw, brace_pos + obj.end - 1) <= Len(raw)
                         THEN Raise("JSONDecodeError")
                    ELSE Ok(obj.val))))

_extract_json_from_html(raw, key) ==
    LET encoded_key == <<"\"">> \o key \o <<"\"", ":">>
    IN  Once(Find(raw, encoded_key, 1), LAMBDA key_pos :
            IF key_pos = 0 THEN Raise("ValueError: Key not found")
            ELSE Once(Find(raw, <<"{">>, key_pos + Len(encoded_key)), LAMBDA brace_pos :
                IF brace_pos = 0 THEN Raise("ValueError: Opening brace not found")
                ELSE Once(raw_decode(SubSeq(raw, brace_pos, Len(raw))), LAMBDA obj :
                    IF IsOk(obj) THEN Ok(obj.val) ELSE Raise(obj.exc))))

-----------------------------------------------------------------------------
(* _parse_community_post_url *)

ALLOWED_SCHEMES == {<<"http">>, <<"https">>}

ALLOWED_NETLOCS ==
    {<<"youtu.be">>, <<"m.youtube.com">>, <<"youtube.com">>, <<"www.youtube.com">>,
     <<"www.youtube-nocookie.com">>}

\* the symbols of a URL that delimit its parts; every other symbol is a word
\* of letters, digits and dots that starts with a letter
UrlDelimiters == {":", "/", "?", "#", ";"}

\* str.lower(), by symbol
LowerSymbol(w) == IF w = "HTTPS" THEN "https" ELSE w
lower(s) == [i \in 1..Len(s) |-> LowerSymbol(s[i])]

\* the first position at or after start that holds one of chars; Len(s) + 1 when none
FirstOf(s, chars, start) ==
    LET hits == {i \in start..Len(s) : s[i] \in chars}
    IN  IF hits = {} THEN Len(s) + 1 ELSE CHOOSE i \in hits : \A j \in hits : i <= j

\* the last position that holds ch; 0 when none
LastOf(s, ch) ==
    LET hits == {i \in 1..Len(s) : s[i] = ch}
    IN  IF hits = {} THEN 0 ELSE CHOOSE i \in hits : \A j \in hits : i >= j

\* the schemes whose last path segment urlparse splits at ";"
uses_params == {<< >>, <<"ftp">>, <<"http">>, <<"https">>}

\* urllib.parse.urlparse(url): its scheme, netloc and path
urlparse(url) ==
    LET colon == FirstOf(url, {":"}, 1)
        hasScheme == colon > 1 /\ colon <= Len(url)
                        /\ \A k \in 1..(colon - 1) : url[k] \notin UrlDelimiters
        scheme == IF hasScheme THEN lower(SubSeq(url, 1, colon - 1)) ELSE << >>
        rest == IF hasScheme THEN SubSeq(url, colon + 1, Len(url)) ELSE url
        hasNetloc == Len(rest) >= 2 /\ rest[1] = "/" /\ rest[2] = "/"
        netlocEnd == FirstOf(rest, {"/", "?", "#"}, 3)
        netloc == IF hasNetloc THEN SubSeq(rest, 3, netlocEnd - 1) ELSE << >>
        after == IF hasNetloc THEN SubSeq(rest, netlocEnd, Len(rest)) ELSE rest
        whole == SubSeq(after, 1, FirstOf(after, {"?", "#"}, 1) - 1)
        semi == FirstOf(whole, {";"}, LastOf(whole, "/") + 1)
        path == IF scheme \in uses_params THEN SubSeq(whole, 1, semi - 1) ELSE whole
    IN  [scheme |-> scheme, netloc |-> netloc, path |-> path]

\* the validator with the host checked before the scheme
_parse_community_post_url_netloc_first(url) ==
    LET parsed_url == urlparse(url)
        path == parsed_url.path
    IN  IF parsed_url.netloc \notin ALLOWED_NETLOCS THEN Raise("ValueError: Invalid URL netloc")
        ELSE IF parsed_url.scheme \notin ALLOWED_SCHEMES THEN Raise("ValueError: Invalid URL scheme")
        ELSE IF Find(path, <<"/", "post", "/">>, 1) = 0 THEN Raise("ValueError: Invalid URL path")
        ELSE Ok(PyStr(SubSeq(path, LastOf(path, "/") + 1, Len(path))))

_parse_community_post_url(url) ==
    LET parsed_url == urlparse(url)
        path == parsed_url.path
    IN  IF parsed_url.scheme \notin ALLOWED_SCHEMES THEN Raise("ValueError: Invalid URL scheme")
        ELSE IF parsed_url.netloc \notin ALLOWED_NETLOCS THEN Raise("ValueError: Invalid URL netloc")
        ELSE IF Find(path, <<"/", "post", "/">>, 1) = 0 THEN Raise("ValueError: Invalid URL path")
        ELSE Ok(PyStr(SubSeq(path, LastOf(path, "/") + 1, Len(path))))

-----------------------------------------------------------------------------
(* YoutubeCommunityLoader *)

\* __init__(self, post_id, continue_on_failure)
NewLoader(post_id, continue_on_failure) ==
    [post_id |-> post_id, continue_on_failure |-> continue_on_failure]

extract_post_id(youtube_community_url) == _parse_community_post_url(youtube_community_url)

\* from_youtube_community_url: the post id, then cls(post_id, **kwargs)
from_youtube_community_url(youtube_community_url, continue_on_failure) ==
    LET post_id == extract_post_id(youtube_community_url)
    IN  IF IsOk(post_id) THEN [exc |-> "none", made |-> <<NewLoader(post_id.val, continue_on_failure)>>]
        ELSE [exc |-> post_id.exc, made |-> << >>]

\* str(x or "") of a record builder field
OrEmpty(x) == IF Truthy(x) THEN x ELSE PyStr(<< >>)

_parse_post_data(self, post_json, post_url, now) ==
    Once(_get_text_content(post_json), LAMBDA text_content :
    Once(IF IsOk(text_content) THEN _get_video_link(post_json) ELSE text_content, LAMBDA video_link :
    Once(IF IsOk(video_link) THEN _get_image_links(post_json) ELSE video_link, LAMBDA image_links :
    Once(IF IsOk(image_links) THEN _get_poll_content(post_json) ELSE image_links, LAMBDA poll_content :
    Once(IF IsOk(poll_content)
         THEN Sub(Idx(Sub(Sub(Ok(post_json), "publishedTimeText"), "runs"), 0), "text")
         ELSE poll_content,
         LAMBDA time_since :
            IF ~IsOk(time_since) THEN time_since
            ELSE Ok(PyDict([post_link |-> post_url,
                            post_id |-> self.post_id,
                            text_content |-> OrEmpty(text_content.val),
                            video_link |-> video_link.val,
                            image_links |-> image_links.val,
                            poll_content |-> poll_content.val,
                            time_of_download |-> now,
                            time_since |-> time_since.val])))))))

BackstageMarker == <<"backstagePostRenderer">>
SharedMarker == <<"sharedPostRenderer">>

_extract_post_from_html(self, html, post_url, now) ==
    Once(_extract_json_from_html(html, BackstageMarker), LAMBDA first :
        Once(IF ~IsOk(first) THEN first
             ELSE IF ~Truthy(first.val) THEN _extract_json_from_html(html, SharedMarker)
             ELSE first,
             LAMBDA post_json :
                IF IsOk(post_json) THEN _parse_post_data(self, post_json.val, post_url, now)
                ELSE post_json))

OptionalFields == {"video_link", "image_links", "poll_content"}

Document(page_content, metadata) ==
    [t |-> "Document", v |-> [page_content |-> page_content, metadata |-> metadata]]

\* the document constructor with every optional key emitted, None included
_create_document_with_placeholders(self, post_data) ==
    LET field(key) == IF key \in DOMAIN post_data.v THEN post_data.v[key] ELSE None
    IN  Document(field("text_content"),
                 PyDict([source |-> field("post_link"), post_id |-> self.post_id,
                         time_since |-> field("time_since"),
                         time_of_download |-> field("time_of_download"),
                         video_link |-> field("video_link"),
                         image_links |-> field("image_links"),
                         poll_content |-> field("poll_content")]))

_create_document(self, post_data) ==
    LET field(key) == IF key \in DOMAIN post_data.v THEN post_data.v[key] ELSE None
        text_content == IF "text_content" \in DOMAIN post_data.v
                        THEN post_data.v["text_content"] ELSE PyStr(<< >>)
        required == [source |-> IF "post_link" \in DOMAIN post_data.v
                                THEN post_data.v["post_link"] ELSE PyStr(<< >>),
                     post_id |-> self.post_id,
                     time_since |-> IF "time_since" \in DOMAIN post_data.v
                                    THEN post_data.v["time_since"] ELSE PyStr(<< >>),
                     time_of_download |-> IF "time_of_download" \in DOMAIN post_data.v
                                          THEN post_data.v["time_of_download"] ELSE PyStr(<< >>)]
        kept == {key \in OptionalFields : Truthy(field(key))}
        optional == [key \in kept |-> post_data.v[key]]
    IN  Document(text_content, PyDict(optional @@ required))

PostUrlPrefix == <<"https://www.youtube.com/post/">>

\* response: what session.get and raise_for_status come to, [exc, text]
_load_post(self, response, now) ==
    LET post_url == PyStr(PostUrlPrefix \o self.post_id.v)
    IN  IF response.exc # "none" THEN Raise(response.exc)
        ELSE Once(_extract_post_from_html(self, response.text, post_url, now), LAMBDA post_data :
                IF ~IsOk(post_data) THEN post_data
                ELSE Ok(PyList(<<_create_document(self, post_data.val)>>)))

\* load with the test of continue_on_failure inverted
load_inverted_policy(self, response, now) ==
    Once(_load_post(self, response, now), LAMBDA result :
        IF IsOk(result) THEN [out |-> result, logged |-> << >>]
        ELSE IF ~self.continue_on_failure
             THEN [out |-> Ok(PyList(<< >>)), logged |-> <<result.exc>>]
        ELSE [out |-> result, logged |-> << >>])

\* load(self): its outcome and what it logs
load(self, response, now) ==
    Once(_load_post(self, response, now), LAMBDA result :
        IF IsOk(result) THEN [out |-> result, logged |-> << >>]
        ELSE IF self.continue_on_failure
             THEN [out |-> Ok(PyList(<< >>)), logged |-> <<result.exc>>]
        ELSE [out |-> result, logged |-> << >>])

-----------------------------------------------------------------------------
(* The inputs of the calls: bounded sets of decoded post objects, redirect  *)
(* URLs, records, blobs and post URLs.                                      *)

MaxThumbs == 2
MaxImages == 2
MaxChoices == 2
MaxRuns == 2
MaxParams == 2
MaxJunk == 1
MaxSegments == 3

SeqsUpTo(S, n) == UNION {[1..k -> S] : k \in 0..n}
Dict1(key, x) == PyDict(key :> x)
Text(s) == Dict1("text", PyStr(s))

\* image attachments
UrlThumbs == {Dict1("url", PyStr(<<"lo">>)), Dict1("url", PyStr(<<"hi">>))}
ThumbLists == SeqsUpTo(UrlThumbs, MaxThumbs) \cup {<<EmptyDict>>}
ImageDicts == {Dict1("thumbnails", PyList(l)) : l \in ThumbLists} \cup {EmptyDict}
ImageRenderers == {Dict1("image", im) : im \in ImageDicts} \cup {EmptyDict}
SingleMaps == {"backstageImageRenderer" :> b : b \in ImageRenderers}
ImageEntries == {Dict1("backstageImageRenderer", b) : b \in ImageRenderers} \cup {EmptyDict}
MultiRenderers ==
    {Dict1("images", PyList(l)) : l \in SeqsUpTo(ImageEntries, MaxImages)} \cup {EmptyDict}
MultiMaps == {"postMultiImageRenderer" :> m : m \in MultiRenderers}
OneImageMulti ==
    "postMultiImageRenderer" :>
        Dict1("images", PyList(<<Dict1("backstageImageRenderer", Dict1("image",
            Dict1("thumbnails", PyList(<<Dict1("url", PyStr(<<"m1">>))>>))))>>))
BothMaps == {single @@ OneImageMulti : single \in SingleMaps}

\* poll attachments
PollTexts == {<<"A">>, << >>, <<"B", ",", " ">>}
ChoiceTextMaps ==
    {EmptyMap, "text" :> EmptyDict, "text" :> Dict1("runs", PyList(<< >>)),
     "text" :> Dict1("runs", PyList(<<EmptyDict>>))}
        \cup {"text" :> Dict1("runs", PyList(<<Text(s)>>)) : s \in PollTexts}
VoteMaps == {EmptyMap, "voteRatio" :> PyFloat(4000), "voteRatio" :> PyInt(0)}
Choices == {PyDict(text @@ vote) : text \in ChoiceTextMaps, vote \in VoteMaps}
Choice(s, vote_ratio) ==
    PyDict(("text" :> Dict1("runs", PyList(<<Text(s)>>))) @@ ("voteRatio" :> vote_ratio))
ChoiceLists ==
    SeqsUpTo(Choices, MaxChoices)
        \cup {<<Choice(<<"A">>, PyFloat(4000)), Choice(<<"B">>, PyFloat(6000))>>,
              <<Choice(<<"A">>, PyFloat(3333))>>, <<Choice(<<"A">>, PyFloat(6667))>>,
              <<Choice(<<"A">>, PyFloat(10000))>>, <<Choice(<<"A">>, PyInt(1))>>}
PollRenderers == {Dict1("choices", PyList(l)) : l \in ChoiceLists} \cup {EmptyDict}
PollMaps == {"pollRenderer" :> poll : poll \in PollRenderers}

\* video attachments
VideoMaps ==
    {"videoRenderer" :> Dict1("videoId", PyStr(<<"v1">>)), "videoRenderer" :> EmptyDict}

AllAttachments ==
    ("videoRenderer" :> Dict1("videoId", PyStr(<<"v1">>)))
        @@ ("backstageImageRenderer" :>
                Dict1("image", Dict1("thumbnails", PyList(<<Dict1("url", PyStr(<<"hi">>))>>))))
        @@ ("pollRenderer" :> Dict1("choices", PyList(<<Choice(<<"A">>, PyFloat(4000))>>)))

AttachmentMaps ==
    {EmptyMap, AllAttachments} \cup SingleMaps \cup MultiMaps \cup BothMaps
        \cup PollMaps \cup VideoMaps
AttachmentPosts == {Dict1("backstageAttachment", PyDict(a)) : a \in AttachmentMaps}

\* text runs
RECURSIVE JoinWith(_, _, _)
\* sep.join(parts[i:])
JoinWith(parts, sep, i) ==
    IF i > Len(parts) THEN << >>
    ELSE IF i = Len(parts) THEN parts[i]
    ELSE parts[i] \o sep \o JoinWith(parts, sep, i + 1)

RedirectBase == <<"https://r">>
QValues == {<< >>, <<"x">>, <<"%", "3", "A">>, <<"x", "%", "2">>}
Params == {<<"q", "=">> \o x : x \in QValues} \cup {<<"s", "q", "=", "y">>, <<"v", "=", "y">>}
RedirectUrls ==
    {RedirectBase, RedirectBase \o <<"?", "q", "=", "x", "\n", "y">>}
        \cup {RedirectBase \o <<"?">> \o JoinWith(ps, <<"&">>, 1) :
                ps \in SeqsUpTo(Params, MaxParams) \ {<< >>}}
LinkRun(u) == Dict1("navigationEndpoint", Dict1("urlEndpoint", Dict1("url", PyStr(u))))
SmallRuns ==
    {Text(<<"h">>), EmptyDict,
     PyDict(("navigationEndpoint" :> EmptyDict) @@ ("text" :> PyStr(<<" ", "w">>))),
     PyDict(LinkRun(RedirectBase \o <<"?", "q", "=", "%", "3", "A">>).v
                @@ ("text" :> PyStr(<<"l">>)))}
RunLists == SeqsUpTo(SmallRuns, MaxRuns) \cup {<<LinkRun(u)>> : u \in RedirectUrls}
TextMaps ==
    {"contentText" :> EmptyDict, "content" :> EmptyDict}
        \cup {"contentText" :> Dict1("runs", PyList(l)) : l \in RunLists}
        \cup {"content" :> Dict1("runs", PyList(l)) : l \in RunLists}
        \cup {("contentText" :> main) @@ ("content" :> Dict1("runs", PyList(<<Text(<<"s">>)>>))) :
                main \in {EmptyDict, Dict1("runs", PyList(<< >>)),
                          Dict1("runs", PyList(<<Text(<<"h">>)>>))}}
TextPosts == {PyDict(m) : m \in TextMaps}

\* the decoded post objects handed to the field extractors
Posts ==
    AttachmentPosts \cup TextPosts
        \cup {PyDict(("contentText" :> Dict1("runs", PyList(<<Text(<<"h">>)>>)))
                        @@ ("backstageAttachment" :> PyDict(AllAttachments)))}

\* the decoded post objects handed to the record builder
PublishedTime == "publishedTimeText" :> Dict1("runs", PyList(<<Text(<<"1", "d">>)>>))
TimedPosts == {PyDict(PublishedTime @@ post.v) : post \in Posts}
UntimedPosts ==
    {PyDict(("contentText" :> Dict1("runs", PyList(<<Text(<<"h">>)>>)))
                @@ ("backstageAttachment" :> PyDict(AllAttachments)) @@ time) :
        time \in {EmptyMap, "publishedTimeText" :> EmptyDict,
                  "publishedTimeText" :> Dict1("runs", PyList(<< >>)),
                  "publishedTimeText" :> Dict1("runs", PyList(<<EmptyDict>>))}}
RecordPosts == TimedPosts \cup UntimedPosts

\* the readings of the clock, as strftime renders them
Clock == {PyStr(<<"2023-01-01 12:00:00 UTC">>), PyStr(<<"2023-01-01 12:00:01 UTC">>)}

\* the loaders
PostIds == {PyStr(<<"p", "1">>), PyStr(<< >>)}
Loaders == {NewLoader(post_id, cof) : post_id \in PostIds, cof \in BOOLEAN}

\* the records handed to _create_document
RequiredMap ==
    [post_link |-> PyStr(PostUrlPrefix \o <<"p", "1">>), post_id |-> PyStr(<<"p", "1">>),
     time_since |-> PyStr(<<"1", "d">>), time_of_download |-> PyStr(<<"2023-01-01 12:00:00 UTC">>)]
OptionalMaps(key, values) == {EmptyMap, key :> None} \cup {key :> x : x \in values}
Records ==
    {PyDict(text @@ video @@ image @@ poll @@ RequiredMap) :
        text \in {EmptyMap, "text_content" :> PyStr(<< >>), "text_content" :> PyStr(<<"h">>)},
        video \in OptionalMaps("video_link", {PyStr(<< >>), PyStr(WatchPrefix \o <<"v1">>)}),
        image \in OptionalMaps("image_links", {PyList(<< >>), PyList(<<PyStr(<<"hi">>)>>),
                                               PyList(<<PyStr(<<"hi">>), PyStr(<<"m1">>)>>)}),
        poll \in OptionalMaps("poll_content", {PyStr(PollPrefix \o <<"A">>)})}

\* the text of JSON values, as the symbols of a blob
Quoted(s) == <<"\"">> \o s \o <<"\"">>
Member(key, text) == Quoted(<<key>>) \o <<":">> \o text
Object(members) == <<"{">> \o JoinWith(members, <<",">>, 1) \o <<"}">>
Array(elements) == <<"[">> \o JoinWith(elements, <<",">>, 1) \o <<"]">>
RunsText(s) == Object(<<Member("runs", Array(<<Object(<<Member("text", Quoted(s))>>)>>))>>)

TimeMember == Member("publishedTimeText", RunsText(<<"1", "d">>))
AttachmentMember ==
    Member("backstageAttachment", Object(<<
        Member("videoRenderer", Object(<<Member("videoId", Quoted(<<"v1">>))>>)),
        Member("backstageImageRenderer", Object(<<Member("image", Object(<<
            Member("thumbnails", Array(<<Object(<<Member("url", Quoted(<<"lo">>))>>),
                                         Object(<<Member("url", Quoted(<<"hi">>))>>)>>))>>))>>)),
        Member("pollRenderer", Object(<<Member("choices", Array(<<Object(<<
            Member("text", RunsText(<<"A">>)), Member("voteRatio", <<"0", ".", "4">>)>>)>>))>>))>>))

\* what may follow the direct-post marker
DirectBodies ==
    {<< >>,
     Object(<< >>),
     <<" ">> \o Object(<<TimeMember>>),
     Object(<<Member("contentText", RunsText(<<"h">>)), AttachmentMember, TimeMember>>),
     Object(<<Member("contentText", RunsText(<<"h">>)), AttachmentMember>>),
     <<"{">> \o Member("contentText", <<"{">>)}

\* what may follow the repost marker
SharedBodies ==
    {Object(<<Member("content", RunsText(<<"s">>)), TimeMember>>),
     Object(<< >>),
     <<"{">> \o Quoted(<<"content">>)}

DirectParts == {<< >>} \cup {Quoted(BackstageMarker) \o <<":">> \o body : body \in DirectBodies}
SharedParts == {<< >>} \cup {Quoted(SharedMarker) \o <<":">> \o body : body \in SharedBodies}

\* the text around the embedded objects
JunkSymbols == {"<script>", "}"}
Junk == SeqsUpTo(JunkSymbols, MaxJunk)

Blobs ==
    {<<"<html>">> \o first \o between \o second \o trailing :
        first \in DirectParts, second \in SharedParts, between \in Junk, trailing \in Junk}
    \cup
    {<<"<html>">> \o first \o between \o second \o trailing :
        first \in SharedParts, second \in DirectParts, between \in Junk, trailing \in Junk}

\* what the fetch of the post page comes to
Responses ==
    {[exc |-> "none", text |-> blob] : blob \in Blobs}
        \cup {[exc |-> e, text |-> << >>] : e \in {"ConnectionError", "HTTPError"}}

\* post URLs
SchemeParts == {<< >>, <<"https", ":">>, <<"http", ":">>, <<"HTTPS", ":">>, <<"ftp", ":">>}
NetlocParts ==
    {<<"/", "/", "www.youtube.com">>, <<"/", "/", "youtu.be">>, <<"/", "/", "example.com">>,
     <<"/", "/", "youtube.com", ":", "443">>}
Segments == {<<"/", "post">>, <<"/", "abc">>, <<"/", "channel">>, <<"/">>}
PathParts == {JoinWith(segs, << >>, 1) : segs \in SeqsUpTo(Segments, MaxSegments)}
TailParts == {<< >>, <<"?", "u", "=", "/", "post", "/", "xyz">>, <<";", "p", "#", "/", "post", "/", "xyz">>}
Urls ==
    {scheme \o netloc \o path \o tail :
        scheme \in SchemeParts, netloc \in NetlocParts, path \in PathParts, tail \in TailParts}

-----------------------------------------------------------------------------
(* The calls.  A behaviour is one call of a module-level function, or the   *)
(* construction of a loader followed by one call of one of its methods.     *)

NoCall == [fn |-> "none", arg |-> None, out |-> Ok(None)]
Called(fn, arg, out) == [fn |-> fn, arg |-> arg, out |-> out]
Response(r) == [t |-> "Response", v |-> r]

Init ==
    /\ pc = "start"
    /\ loader = << >>
    /\ call = NoCall
    /\ log = << >>

Return(fn, arg, out) ==
    /\ pc' = "done"
    /\ call' = Called(fn, arg, out)
    /\ UNCHANGED <<loader, log>>

GetVideoLink ==
    /\ pc = "start"
    /\ \E post \in Posts : Return("_get_video_link", post, _get_video_link(post))

GetImageLinks ==
    /\ pc = "start"
    /\ \E post \in Posts : Return("_get_image_links", post, _get_image_links(post))

GetTextContent ==
    /\ pc = "start"
    /\ \E post \in Posts : Return("_get_text_content", post, _get_text_content(post))

GetPollContent ==
    /\ pc = "start"
    /\ \E post \in Posts : Return("_get_poll_content", post, _get_poll_content(post))

ExtractJson ==
    /\ pc = "start"
    /\ \E raw \in Blobs, key \in {BackstageMarker, SharedMarker} :
          Return("_extract_json_from_html", PyList(<<PyStr(raw), PyStr(key)>>),
                 _extract_json_from_html(raw, key))

Construct ==
    /\ pc = "start"
    /\ \E self \in Loaders :
          /\ loader' = <<self>>
          /\ pc' = "constructed"
          /\ call' = Called("__init__", None, Ok(None))
          /\ log' = log

ParsePostData ==
    /\ pc = "constructed"
    /\ \E post_json \in RecordPosts, now \in Clock :
          Return("_parse_post_data", post_json,
                 _parse_post_data(loader[1], post_json,
                                  PyStr(PostUrlPrefix \o loader[1].post_id.v), now))

ExtractPost ==
    /\ pc = "constructed"
    /\ \E html \in Blobs, now \in Clock :
          Return("_extract_post_from_html", PyStr(html),
                 _extract_post_from_html(loader[1], html,
                                         PyStr(PostUrlPrefix \o loader[1].post_id.v), now))

CreateDocument ==
    /\ pc = "constructed"
    /\ \E post_data \in Records :
          Return("_create_document", post_data, Ok(_create_document(loader[1], post_data)))

Load ==
    /\ pc = "constructed"
    /\ \E response \in Responses, now \in Clock :
          \E result \in {load(loader[1], response, now)} :
              /\ pc' = "done"
              /\ call' = Called("load", Response(response), result.out)
              /\ log' = log \o result.logged
              /\ loader' = loader

Next ==
    \/ GetVideoLink
    \/ GetImageLinks
    \/ GetTextContent
    \/ GetPollContent
    \/ ExtractJson
    \/ Construct
    \/ ParsePostData
    \/ ExtractPost
    \/ CreateDocument
    \/ Load

Spec == Init /\ [][Next]_vars

\* the URL validator and the construction of a loader from a URL
ExtractPostId ==
    /\ pc = "start"
    /\ \E url \in Urls : Return("extract_post_id", PyStr(url), extract_post_id(url))

FromUrl ==
    /\ pc = "start"
    /\ \E url \in Urls, cof \in BOOLEAN :
          \E result \in {from_youtube_community_url(url, cof)} :
              /\ pc' = IF result.exc = "none" THEN "constructed" ELSE "done"
              /\ loader' = result.made
              /\ call' = Called("from_youtube_community_url", PyStr(url),
                                IF result.exc = "none" THEN Ok(None) ELSE Raise(result.exc))
              /\ log' = log

NextUrl ==
    \/ ExtractPostId
    \/ FromUrl

SpecUrl == Init /\ [][NextUrl]_vars

-----------------------------------------------------------------------------
(* The claims *)

EncodedKey(key) == <<"\"">> \o key \o <<"\"", ":">>
PostUrl(self) == PyStr(PostUrlPrefix \o self.post_id.v)

\* C1: when the blob holds no direct-post marker and holds the repost marker
\* followed by a complete JSON object, _extract_post_from_html builds the
\* record from the repost object and does not end with NotFound.
C1_RepostMarkerTriedNext ==
    (/\ call.fn = "_extract_post_from_html"
     /\ Find(call.arg.v, EncodedKey(BackstageMarker), 1) = 0
     /\ IsOk(_extract_json_from_html(call.arg.v, SharedMarker)))
    => \E now \in Clock :
          call.out = _parse_post_data(loader[1],
                                      _extract_json_from_html(call.arg.v, SharedMarker).val,
                                      PostUrl(loader[1]), now)

\* C2: when the direct-post marker is found and a JSON object decodes after
\* it (an empty object included), the record is built from that object alone,
\* whether or not the repost marker occurs, and the repost marker is not consulted.
C2_FirstFoundWins ==
    (/\ call.fn = "_extract_post_from_html"
     /\ IsOk(_extract_json_from_html(call.arg.v, BackstageMarker)))
    => \E now \in Clock :
          call.out = _parse_post_data(loader[1],
                                      _extract_json_from_html(call.arg.v, BackstageMarker).val,
                                      PostUrl(loader[1]), now)

\* C3: _parse_post_data returns a record for every post object that holds
\* publishedTimeText.runs[0].text, whatever is missing or empty in the text,
\* video, image and poll sub-structures.
C3_RecordBuilderNeverRaises ==
    (/\ call.fn = "_parse_post_data"
     /\ IsOk(Sub(Idx(Sub(Sub(Ok(call.arg), "publishedTimeText"), "runs"), 0), "text")))
    => IsOk(call.out)

\* the outcome of the stages of the per-post pipeline, fetch included
Pipeline(self, response) ==
    IF response.exc # "none" THEN Raise(response.exc)
    ELSE _extract_post_from_html(self, response.text, PostUrl(self), CHOOSE now \in Clock : TRUE)

\* C4: when a stage of the pipeline fails, load() raises that error if
\* continue_on_failure is False, and returns an empty list (and logs the
\* error) if it is True; when no stage fails it returns exactly one document,
\* the one made from the record; a failed pipeline returns no document.
C4_LoadFailurePolicy ==
    call.fn = "load" =>
        \E staged \in {Pipeline(loader[1], call.arg.v)} :
            IF IsOk(staged)
            THEN /\ IsOk(call.out)
                 /\ Len(call.out.val.v) = 1
                 /\ call.out.val.v[1].t = "Document"
                 /\ \E now \in Clock :
                       call.out.val.v[1]
                         = _create_document(loader[1],
                               PyDict(("time_of_download" :> now) @@ staged.val.v))
                 /\ log = << >>
            ELSE IF loader[1].continue_on_failure
                 THEN call.out = Ok(PyList(<< >>)) /\ log = <<staged.exc>>
                 ELSE call.out = Raise(staged.exc) /\ log = << >>

\* a load() in permissive mode whose record builder found no timestamp
C4_Witness ==
    /\ call.fn = "load"
    /\ loader[1].continue_on_failure
    /\ call.arg.v.exc = "none"
    /\ IsOk(_extract_json_from_html(call.arg.v.text, BackstageMarker))
    /\ log = <<"KeyError">>
    /\ call.out = Ok(PyList(<< >>))

\* the positions at which "/post/" occurs in path
PostHits(path) ==
    {i \in 1..Len(path) : i + 2 <= Len(path) /\ SubSeq(path, i, i + 2) = <<"/", "post", "/">>}

\* the path segment that follows the "/post/" at position hit
SegmentAfterPost(path, hit) ==
    SubSeq(path, hit + 3, FirstOf(path, {"/"}, hit + 3) - 1)

\* C5: for a URL whose scheme is http or https, whose host is in the
\* allow-list and whose path contains /post/<id>, extract_post_id returns
\* exactly <id>, the path segment that follows /post/, whatever segments
\* precede /post/ or follow <id> (a trailing slash included).
C5_ReturnsSegmentAfterPost ==
    (/\ call.fn = "extract_post_id"
     /\ urlparse(call.arg.v).scheme \in ALLOWED_SCHEMES
     /\ urlparse(call.arg.v).netloc \in ALLOWED_NETLOCS
     /\ PostHits(urlparse(call.arg.v).path) # {})
    => \E hit \in PostHits(urlparse(call.arg.v).path) :
           call.out = Ok(PyStr(SegmentAfterPost(urlparse(call.arg.v).path, hit)))

\* the category of the first check a URL fails; "none" when it passes all
FailedCheck(url) ==
    LET schemeOk == \E w \in {"http", "https", "HTTPS"} : SubSeq(url, 1, 2) = <<w, ":">>
        netlocOk == \E host \in ALLOWED_NETLOCS :
                        /\ SubSeq(url, 3, 5) = <<"/", "/">> \o host
                        /\ CharAt(url, 6) \in {"", "/", "?", "#"}
        rest == SubSeq(url, 6, FirstOf(url, {"?", "#"}, 6) - 1)
    IN  IF ~schemeOk THEN "ValueError: Invalid URL scheme"
        ELSE IF ~netlocOk THEN "ValueError: Invalid URL netloc"
        ELSE IF Find(rest, <<"/", "post", "/">>, 1) = 0 THEN "ValueError: Invalid URL path"
        ELSE "none"

\* C6: a URL that fails the scheme, host or path check yields no post id and
\* the error of the first failed check, in the order scheme, host, path;
\* from_youtube_community_url then constructs no loader.
C6_ErrorCategories ==
    call.fn \in {"extract_post_id", "from_youtube_community_url"} =>
        /\ call.out.exc = FailedCheck(call.arg.v)
        /\ (call.fn = "from_youtube_community_url" /\ FailedCheck(call.arg.v) # "none")
              => (loader = << >> /\ pc # "constructed")
        /\ (call.fn = "from_youtube_community_url" /\ FailedCheck(call.arg.v) = "none")
              => (Len(loader) = 1 /\ pc = "constructed")

\* a URL with an allowed scheme, a host outside the allow-list and no /post/
\* segment: from_youtube_community_url fails on the host and makes no loader
C6_Witness ==
    /\ call.fn = "from_youtube_community_url"
    /\ Len(call.arg.v) >= 5
    /\ SubSeq(call.arg.v, 1, 5) = <<"https", ":", "/", "/", "example.com">>
    /\ Find(call.arg.v, <<"/", "post", "/">>, 1) = 0
    /\ call.out.exc = "ValueError: Invalid URL netloc"
    /\ loader = << >>

\* the run list the text extractor chooses: contentText.runs, else content.runs
ChosenRuns(post) ==
    LET main == Sub(Sub(Ok(post), "contentText"), "runs")
    IN  IF IsOk(main) THEN main ELSE Sub(Sub(Ok(post), "content"), "runs")

\* the positions at which a query parameter named q starts
QParamStarts(u) ==
    LET query == FirstOf(u, {"?"}, 1)
    IN  {i \in (query + 1)..Len(u) :
            (i = query + 1 \/ u[i - 1] = "&") /\ u[i] = "q" /\ CharAt(u, i + 1) = "="}

\* the value of the first query parameter named q, up to the next parameter
QParamValue(u) ==
    LET start == CHOOSE i \in QParamStarts(u) : \A j \in QParamStarts(u) : i <= j
    IN  SubSeq(u, start + 2, FirstOf(u, {"&"}, start + 2) - 1)

\* what one run contributes to the text content
RunValue(run) ==
    LET url == Sub(Sub(Sub(Ok(run), "navigationEndpoint"), "urlEndpoint"), "url")
    IN  IF IsOk(url)
        THEN (IF QParamStarts(url.val.v) # {} THEN unquote(QParamValue(url.val.v)) ELSE url.val.v)
        ELSE IF "text" \in DOMAIN run.v THEN run.v["text"].v
        ELSE << >>

\* C7: the text content is the concatenation, in order and with no
\* separator, of each run's value: for a link run the percent-decoded value of
\* the redirect URL's q parameter (that parameter alone), or the URL verbatim
\* when it has none; for any other run its text, or the empty string.
C7_TextIsConcatenationOfRunValues ==
    (call.fn = "_get_text_content" /\ IsOk(ChosenRuns(call.arg)))
    => LET runs == ChosenRuns(call.arg).val.v
       IN  call.out = Ok(PyStr(JoinWith([i \in 1..Len(runs) |-> RunValue(runs[i])], << >>, 1)))

\* the display text of a poll choice, empty when it has none
DisplayText(choice) ==
    LET text == Sub(Idx(Sub(Sub(Ok(choice), "text"), "runs"), 0), "text")
    IN  IF IsOk(text) THEN text.val.v ELSE << >>

\* a vote ratio as a percentage with one decimal place
OneDecimal(vote_ratio) ==
    LET tenths == IF vote_ratio.t = "int" THEN vote_ratio.v * 1000
                  ELSE (vote_ratio.v + 5) \div 10
    IN  IntToStr(tenths \div 10) \o <<".">> \o IntToStr(tenths % 10)

\* the entry of one choice in the poll summary
PollEntry(choice) ==
    IF "voteRatio" \in DOMAIN choice.v /\ choice.v["voteRatio"].v # 0
    THEN DisplayText(choice) \o <<":", " ">> \o OneDecimal(choice.v["voteRatio"]) \o <<"%">>
    ELSE DisplayText(choice)

\* C8: for a poll attachment, the poll summary is absent when the choice
\* list is absent or empty, and otherwise "Poll: " followed by one entry per
\* choice, in order, joined by ", " with no trailing separator; an entry is the
\* display text exactly as given, followed by ": <pct>%" iff the choice
\* carries a non-zero vote ratio.
C8_PollSummary ==
    (/\ call.fn = "_get_poll_content"
     /\ IsOk(Sub(Sub(Ok(call.arg), "backstageAttachment"), "pollRenderer")))
    => LET poll == call.arg.v["backstageAttachment"].v["pollRenderer"]
           choices == IF "choices" \in DOMAIN poll.v THEN poll.v["choices"].v ELSE << >>
       IN  call.out =
              IF Len(choices) = 0 THEN Ok(None)
              ELSE Ok(PyStr(PollPrefix
                        \o JoinWith([i \in 1..Len(choices) |-> PollEntry(choices[i])],
                                    <<",", " ">>, 1)))

\* the image links a post object yields: the last thumbnail URL of the
\* single-image attachment, else those of the images of the multi-image
\* attachment, else none
ImageLinksOf(post) ==
    LET attachment == Sub(Ok(post), "backstageAttachment")
        single == LastThumbnailUrl(attachment)
        images == Sub(Sub(attachment, "postMultiImageRenderer"), "images")
        urls == [i \in 1..Len(images.val.v) |-> LastThumbnailUrl(Ok(images.val.v[i]))]
    IN  IF IsOk(single) THEN PyList(<<single.val>>)
        ELSE IF IsOk(images) /\ Len(images.val.v) > 0 /\ \A i \in DOMAIN urls : IsOk(urls[i])
             THEN PyList([i \in DOMAIN urls |-> urls[i].val])
        ELSE None

\* C9: for every post object, the image links are the last thumbnail URL
\* of the single-image attachment when it is present, otherwise the last
\* thumbnail URL of each image of the multi-image attachment in order, and
\* absent when neither yields a URL; never an empty sequence.
C9_ImageLinks ==
    call.fn = "_get_image_links" =>
        /\ call.out = Ok(ImageLinksOf(call.arg))
        /\ call.out.val.t = "list" => Len(call.out.val.v) > 0

\* the record carries a value for key: the key is there and its value is
\* neither None nor empty
Carries(record, key) ==
    IF key \notin DOMAIN record.v THEN FALSE
    ELSE IF record.v[key].t = "NoneType" THEN FALSE
    ELSE Len(record.v[key].v) > 0

\* C10: the document's page content is the record's text content; the
\* metadata always holds source, post_id, time_since and time_of_download; it
\* holds video_link, image_links or poll_content iff the record carries a
\* value for that field, with that value, and never a None or empty placeholder.
C10_DocumentFromRecord ==
    call.fn = "_create_document" =>
        LET record == call.arg
            document == call.out.val.v
            metadata == document.metadata.v
        IN  /\ document.page_content
                  = (IF "text_content" \in DOMAIN record.v THEN record.v["text_content"]
                     ELSE PyStr(<< >>))
            /\ {"source", "post_id", "time_since", "time_of_download"} \subseteq DOMAIN metadata
            /\ DOMAIN metadata \subseteq
                  {"source", "post_id", "time_since", "time_of_download"} \cup OptionalFields
            /\ metadata["source"] = record.v["post_link"]
            /\ metadata["post_id"] = loader[1].post_id
            /\ metadata["time_since"] = record.v["time_since"]
            /\ metadata["time_of_download"] = record.v["time_of_download"]
            /\ \A key \in OptionalFields :
                  /\ key \in DOMAIN metadata <=> Carries(record, key)
                  /\ key \in DOMAIN metadata =>
                        (metadata[key] = record.v[key] /\ Carries(PyDict(metadata), key))

\* a record with a video link, a poll content of None and no image_links key:
\* the metadata holds video_link and neither of the other two
C10_Witness ==
    /\ call.fn = "_create_document"
    /\ Carries(call.arg, "video_link")
    /\ "poll_content" \in DOMAIN call.arg.v
    /\ call.arg.v["poll_content"] = None
    /\ "image_links" \notin DOMAIN call.arg.v
    /\ "video_link" \in DOMAIN call.out.val.v.metadata.v
    /\ "poll_content" \notin DOMAIN call.out.val.v.metadata.v
    /\ "image_links" \notin DOMAIN call.out.val.v.metadata.v

\* the errors of the two categories of the locator
NotFound == "ValueError: Key not found"
MalformedJson == {"ValueError: Opening brace not found", "JSONDecodeError"}

\* texts that may follow the decoded value in place of what the blob holds
TrailingTexts == Junk \cup {<<"{">>, <<"\"">>, <<",", "[">>}

\* C11: _extract_json_from_html has exactly one of three outcomes: NotFound
\* when the quoted key followed by a colon never occurs; MalformedJson when
\* no { follows its first occurrence or the text from the first { after it
\* does not begin with one complete JSON value; otherwise exactly the value
\* decoded from that {, whatever text follows the end of that value.
C11_ThreeOutcomes ==
    call.fn = "_extract_json_from_html" =>
        LET raw == call.arg.v[1].v
            key == call.arg.v[2].v
            key_pos == Find(raw, EncodedKey(key), 1)
            brace_pos == Find(raw, <<"{">>, key_pos + Len(EncodedKey(key)))
            value == raw_decode(SubSeq(raw, brace_pos, Len(raw)))
            value_end == brace_pos + value.end - 2
        IN  IF key_pos = 0 THEN call.out = Raise(NotFound)
            ELSE IF brace_pos = 0 \/ ~IsOk(value)
                 THEN call.out.exc \in MalformedJson /\ call.out.val = None
            ELSE /\ call.out = Ok(value.val)
                 /\ call.out.val.t = "dict"
                 /\ raw_decode(SubSeq(raw, brace_pos, value_end)) = value
                 /\ \A tail \in TrailingTexts :
                       _extract_json_from_html(SubSeq(raw, 1, value_end) \o tail, key) = call.out

\* a blob whose object is followed by text that is no JSON: the object is
\* returned
C11_Witness ==
    /\ call.fn = "_extract_json_from_html"
    /\ IsOk(call.out)
    /\ "publishedTimeText" \in DOMAIN call.out.val.v
    /\ call.arg.v[1].v[Len(call.arg.v[1].v)] = "<script>"

=============================================================================
